---- MODULE Spec2Model ----
(***************************************************************************)
(* Model of scripts/analyze_image.py: a batch job that lists the images of *)
(* a local directory, uploads each to S3, asks Rekognition for its labels  *)
(* and records them in a DynamoDB table.                                   *)
(*                                                                         *)
(* Text is modelled as a sequence of characters where the code looks       *)
(* inside it (file names, glob patterns, path ordering) and as an opaque   *)
(* string where it only passes it along (environment values).              *)
(***************************************************************************)
EXTENDS Integers, Sequences, FiniteSets, TLC

VARIABLES
    environ,             \* os.environ: name -> <<>> (unset) or <<value>>
    fs,                  \* the local directory: [status, listing]
    clock,               \* the wall clock read by datetime.now
    table,               \* the DynamoDB table: a set of items
    bucket,              \* the S3 bucket: the set of object keys stored
    runs,                \* how many times main() has been started
    puts,                \* how many put_item calls have succeeded so far
    pc,                  \* position of main()
    aws_region, s3_bucket, dynamodb_table_name, branch_name, timestamp,
    clients,             \* TRUE once the session, clients and table handle exist
    listed,              \* TRUE once list_image_files has been called
    image_files,         \* main's image_files
    idx,                 \* position of the for loop in image_files
    s3_key, labels,      \* main's locals inside the loop body
    response,            \* the last answer of rekognition detect_labels
    error,               \* the exception that ended main(), if any
    stdout,              \* lines printed by this run
    calls                \* external calls issued by this run, in order

vars == <<environ, fs, clock, table, bucket, runs, puts, pc, aws_region,
          s3_bucket, dynamodb_table_name, branch_name, timestamp, clients,
          listed, image_files, idx, s3_key, labels, response, error, stdout,
          calls>>

-----------------------------------------------------------------------------
(* Bounds of the model *)

\* main() is started at most this many times against the same table
MaxRuns == 2
\* a directory holds at most this many entries
MaxEntries == 3
\* a detection response holds at most this many label entries
MaxLabels == 2

-----------------------------------------------------------------------------
(* Text helpers *)

\* code points of the characters the model uses
Ord ==
    [c \in {".", "B", "G", "J", "P", "a", "b", "c", "d", "e", "f", "g", "i", "j",
            "m", "n", "p", "s", "u"} |->
        CASE c = "." -> 46  [] c = "B" -> 66  [] c = "G" -> 71
          [] c = "J" -> 74  [] c = "P" -> 80  [] c = "a" -> 97
          [] c = "b" -> 98  [] c = "c" -> 99  [] c = "d" -> 100
          [] c = "e" -> 101 [] c = "f" -> 102 [] c = "g" -> 103 [] c = "i" -> 105
          [] c = "j" -> 106 [] c = "m" -> 109 [] c = "n" -> 110
          [] c = "p" -> 112 [] c = "s" -> 115 [] c = "u" -> 117]

\* str.__lt__: lexicographic order by code point
RECURSIVE StrLess(_, _)
StrLess(s, t) ==
    IF t = <<>> THEN FALSE
    ELSE IF s = <<>> THEN TRUE
    ELSE IF Head(s) = Head(t) THEN StrLess(Tail(s), Tail(t))
    ELSE Ord[Head(s)] < Ord[Head(t)]

\* PurePath.__lt__: lexicographic order over the path's parts
RECURSIVE PathLess(_, _)
PathLess(p, q) ==
    IF q = <<>> THEN FALSE
    ELSE IF p = <<>> THEN TRUE
    ELSE IF Head(p) = Head(q) THEN PathLess(Tail(p), Tail(q))
    ELSE StrLess(Head(p), Head(q))

\* fnmatch of a name against a pattern whose only wildcard is "*"
RECURSIVE fnmatch(_, _)
fnmatch(name, pat) ==
    IF pat = <<>> THEN name = <<>>
    ELSE IF Head(pat) = "*"
         THEN fnmatch(name, Tail(pat))
              \/ (name # <<>> /\ fnmatch(Tail(name), pat))
         ELSE name # <<>> /\ Head(name) = Head(pat)
              /\ fnmatch(Tail(name), Tail(pat))

\* list insertion used by sorted()
RECURSIVE Insert(_, _)
Insert(p, sortedSeq) ==
    IF sortedSeq = <<>> THEN <<p>>
    ELSE IF PathLess(Head(sortedSeq), p) \/ Head(sortedSeq) = p
         THEN <<Head(sortedSeq)>> \o Insert(p, Tail(sortedSeq))
         ELSE <<p>> \o sortedSeq

\* the list left in the order the globs gave it
SortedNoSort(seq) == seq

\* the builtin sorted() on a list of paths: ascending and stable
RECURSIVE sorted(_)
sorted(seq) ==
    IF seq = <<>> THEN <<>>
    ELSE Insert(seq[Len(seq)], sorted(SubSeq(seq, 1, Len(seq) - 1)))

-----------------------------------------------------------------------------
(* Module constants of the script *)

IMAGES_DIR == <<"i", "m", "a", "g", "e", "s">>

S3_PREFIX == <<"rekognition-input">>

\* the glob patterns of list_image_files, in the order of its for loop
GlobPatterns == <<<<"*", ".", "j", "p", "g">>, <<"*", ".", "j", "p", "e", "g">>,
                  <<"*", ".", "p", "n", "g">>>>

-----------------------------------------------------------------------------
(* list_image_files *)

\* Path.exists(): FALSE when there is no such directory; stat failing for
\* another reason raises
exists(dir) == dir.status = "present"

\* Path.glob(pattern) with a pattern of one component: the entries directly
\* inside the directory whose name matches, in the directory's own order.
\* An entry is a path relative to the directory, so that a nested file has
\* more than one part.
glob(dir, pat) ==
    LET hit(rel) == Len(rel) = 1 /\ fnmatch(rel[1], pat)
        hits == SelectSeq(dir.listing, hit)
    IN  [i \in 1..Len(hits) |-> <<IMAGES_DIR>> \o hits[i]]

\* the loop "for ext in (...): image_files.extend(images_dir.glob(ext))"
RECURSIVE extendAll(_, _)
extendAll(dir, pats) ==
    IF pats = <<>> THEN <<>>
    ELSE glob(dir, Head(pats)) \o extendAll(dir, Tail(pats))

\* list_image_files(images_dir): [raised, value]
list_image_files(dir) ==
    IF dir.status = "error"
    THEN [raised |-> TRUE, value |-> <<>>]
    ELSE IF ~exists(dir)
    THEN [raised |-> FALSE, value |-> <<>>]
    ELSE [raised |-> FALSE, value |-> sorted(extendAll(dir, GlobPatterns))]

-----------------------------------------------------------------------------
(* Python values *)

\* a Python number: its type and its value in tenths
PyFloat(n) == [kind |-> "float", num |-> n]
PyInt(n) == [kind |-> "int", num |-> 10 * n]

\* float(x)
float(x) == [kind |-> "float", num |-> x.num]

\* dict.get(key, default)
get(d, key, default) == IF key \in DOMAIN d THEN d[key] ELSE default

\* os.getenv(name): <<>> stands for None
os_getenv(name) == environ[name]

\* os.getenv(name, default)
os_getenv_default(name, default) ==
    IF environ[name] = <<>> THEN default ELSE environ[name][1]

\* Path.name
PathName(path) == path[Len(path)]

NoError == [type |-> "", msg |-> <<>>, at |-> ""]

-----------------------------------------------------------------------------
(* get_env_var *)

\* a check for None alone, which lets "" through
get_env_var_none_only(name) ==
    LET value == os_getenv(name)
    IN  IF value = <<>>
        THEN [raised |-> TRUE,
              exc |-> [type |-> "ValueError",
                       msg |-> <<"Missing required environment variable: ", name>>,
                       at |-> "get_env_var"]]
        ELSE [raised |-> FALSE, value |-> value[1]]

\* "if not value: raise ValueError(...)": None and "" are both falsy
get_env_var(name) ==
    LET value == os_getenv(name)
    IN  IF value = <<>> \/ value[1] = ""
        THEN [raised |-> TRUE,
              exc |-> [type |-> "ValueError",
                       msg |-> <<"Missing required environment variable: ", name>>,
                       at |-> "get_env_var"]]
        ELSE [raised |-> FALSE, value |-> value[1]]

-----------------------------------------------------------------------------
(* upload_to_s3, detect_labels, write_to_dynamodb *)

\* a key that differs from one upload to the next
s3_key_with_time(file_path) ==
    S3_PREFIX \o <<"/">> \o PathName(file_path) \o <<"@", clock>>

\* s3_key = f"{S3_PREFIX}/{file_path.name}"
s3_key_of(file_path) == S3_PREFIX \o <<"/">> \o PathName(file_path)

\* one iteration of the loop over response.get("Labels", [])
normalize_label(label) ==
    [Name |-> get(label, "Name", "Unknown"),
     Confidence |-> float(get(label, "Confidence", PyFloat(0)))]

\* a second, local filter on the confidence floor of the request
detect_labels_thresholded(resp) ==
    LET found == get(resp, "Labels", <<>>)
        kept(label) == get(label, "Confidence", PyFloat(0)).num >= 700
        out == SelectSeq(found, kept)
    IN  [i \in 1..Len(out) |-> normalize_label(out[i])]

\* detect_labels, from the response of the service to labels_out
detect_labels(resp) ==
    LET found == get(resp, "Labels", <<>>)
    IN  [i \in 1..Len(found) |-> normalize_label(found[i])]

\* datetime.now(timezone.utc).isoformat(): an aware UTC time prints its offset
isoformat(instant) == [instant |-> instant, offset |-> "+00:00"]

\* str.replace("+00:00", "Z") on that text
replace_offset(text) ==
    IF text.offset = "+00:00" THEN [text EXCEPT !.offset = "Z"] ELSE text

\* an item stamped with the time of the write
make_item_now(key, labs, ts, branch) ==
    [filename |-> key, labels |-> labs,
     timestamp |-> replace_offset(isoformat(clock)), branch |-> branch]

\* the item write_to_dynamodb builds
make_item(key, labs, ts, branch) ==
    [filename |-> key, labels |-> labs, timestamp |-> ts, branch |-> branch]

\* Table.put_item on a table whose partition key is "filename": the item
\* replaces the one stored under the same key, if any
put_item(tbl, item) ==
    {old \in tbl : old.filename # item.filename} \cup {item}

-----------------------------------------------------------------------------
(* Inputs *)

\* every way of leaving a variable unset, setting it to "" or to a value
Environs ==
    [AWS_REGION : {<<>>, <<"">>, <<"us-east-1">>},
     S3_BUCKET : {<<>>, <<"">>, <<"my-bucket">>},
     DYNAMODB_TABLE : {<<>>, <<"">>, <<"image-labels">>},
     BRANCH_NAME : {<<>>, <<"">>, <<"main">>}]

\* the environments of the runs that share a table: every branch setting,
\* and two with required variables missing
MainEnvirons ==
    {e \in Environs :
        \/ /\ e.AWS_REGION # <<>> /\ e.AWS_REGION # <<"">>
           /\ e.S3_BUCKET # <<>> /\ e.S3_BUCKET # <<"">>
           /\ e.DYNAMODB_TABLE # <<>> /\ e.DYNAMODB_TABLE # <<"">>
        \/ /\ e.AWS_REGION = <<"us-east-1">> /\ e.S3_BUCKET = <<"">>
           /\ e.DYNAMODB_TABLE = <<>> /\ e.BRANCH_NAME = <<>>
        \/ /\ e.AWS_REGION = <<>> /\ e.S3_BUCKET = <<"my-bucket">>
           /\ e.DYNAMODB_TABLE = <<"image-labels">> /\ e.BRANCH_NAME = <<"main">>}

\* file names, as the relative paths of a directory walk
a_jpg == <<<<"a", ".", "j", "p", "g">>>>
a_jpeg == <<<<"a", ".", "j", "p", "e", "g">>>>
B_png == <<<<"B", ".", "p", "n", "g">>>>
ab_jpg == <<<<"a", "b", ".", "j", "p", "g">>>>
c_JPG == <<<<"c", ".", "J", "P", "G">>>>
d_gif == <<<<"d", ".", "g", "i", "f">>>>
jpg_nodot == <<<<"j", "p", "g">>>>
dot_png == <<<<".", "p", "n", "g">>>>
sub_e_jpg == <<<<"s", "u", "b">>, <<"e", ".", "j", "p", "g">>>>

Entries == {a_jpg, a_jpeg, B_png, ab_jpg, c_JPG, d_gif, jpg_nodot, dot_png,
            sub_e_jpg}

\* the directory listings of at most MaxEntries entries, in any order
Listings ==
    {l \in UNION {[1..n -> Entries] : n \in 0..MaxEntries} :
        \A i, j \in 1..Len(l) : i # j => l[i] # l[j]}

Dirs ==
    {[status |-> "missing", listing |-> <<>>]}
    \cup {[status |-> "present", listing |-> l] : l \in Listings}

\* the directories main() is run on
MainDirs ==
    {[status |-> "missing", listing |-> <<>>],
     [status |-> "error", listing |-> <<>>],
     [status |-> "present", listing |-> <<>>],
     [status |-> "present", listing |-> <<d_gif>>],
     [status |-> "present", listing |-> <<a_jpg>>],
     [status |-> "present", listing |-> <<B_png, d_gif, a_jpg>>]}

\* entries of the Labels list of a detection response
LabelEntries ==
    {[Name |-> n, Confidence |-> c] :
        n \in {"Cat", "Dog"}, c \in {PyFloat(952), PyInt(90), PyFloat(0)}}
    \cup {[Name |-> n] : n \in {"Cat"}}
    \cup {[Confidence |-> c] : c \in {PyFloat(952)}}
    \cup {[Instances |-> <<>>]}

\* detection responses of at most MaxLabels entries, with or without Labels
Responses ==
    {[LabelModelVersion |-> "3.0"]}
    \cup {[Labels |-> l, LabelModelVersion |-> "3.0"] :
            l \in UNION {[1..n -> LabelEntries] : n \in 0..MaxLabels}}

\* the responses main() meets
SampleResponses ==
    {[LabelModelVersion |-> "3.0"],
     [Labels |-> <<[Name |-> "Cat", Confidence |-> PyFloat(952)]>>,
      LabelModelVersion |-> "3.0"],
     [Labels |-> <<[Name |-> "Dog", Confidence |-> PyInt(90)],
                   [Instances |-> <<>>]>>,
      LabelModelVersion |-> "3.0"]}

-----------------------------------------------------------------------------
(* main() *)

\* state of main() before its first statement
Fresh ==
    /\ aws_region = "" /\ s3_bucket = "" /\ dynamodb_table_name = ""
    /\ branch_name = "" /\ timestamp = isoformat(0)
    /\ clients = FALSE /\ listed = FALSE
    /\ image_files = <<>> /\ idx = 0
    /\ s3_key = <<>> /\ labels = <<>>
    /\ response = [LabelModelVersion |-> "3.0"]
    /\ error = NoError /\ stdout = <<>> /\ calls = <<>>

Init ==
    /\ environ \in MainEnvirons
    /\ fs \in MainDirs
    /\ clock = 1
    /\ table = {} /\ bucket = {}
    /\ runs = 1 /\ puts = 0
    /\ pc = "start"
    /\ Fresh

\* the first required variable get_env_var raises on, in main's order
FirstRaise(names) ==
    LET bad == SelectSeq(names, LAMBDA n : get_env_var(n).raised)
    IN  IF bad = <<>> THEN <<>> ELSE <<get_env_var(Head(bad)).exc>>

\* the order in which main() reads the required variables
Required == <<"AWS_REGION", "S3_BUCKET", "DYNAMODB_TABLE">>

\* lines 106-108, one of the three get_env_var calls raising
LoadConfigRaises ==
    /\ pc = "start"
    /\ FirstRaise(Required) # <<>>
    /\ error' = FirstRaise(Required)[1]
    /\ pc' = "raised"
    /\ UNCHANGED <<environ, fs, clock, table, bucket, runs, puts, aws_region,
                   s3_bucket, dynamodb_table_name, branch_name, timestamp,
                   clients, listed, image_files, idx, s3_key, labels,
                   response, stdout, calls>>

\* lines 106-120: the configuration, the branch, the timestamp, the banner
LoadConfig ==
    /\ pc = "start"
    /\ FirstRaise(Required) = <<>>
    /\ aws_region' = get_env_var("AWS_REGION").value
    /\ s3_bucket' = get_env_var("S3_BUCKET").value
    /\ dynamodb_table_name' = get_env_var("DYNAMODB_TABLE").value
    /\ branch_name' = os_getenv_default("BRANCH_NAME", "unknown")
    /\ timestamp' = replace_offset(isoformat(clock))
    /\ stdout' = Append(stdout, [kind |-> "starting",
                                 branch |-> branch_name'])
    /\ pc' = "configured"
    /\ UNCHANGED <<environ, fs, clock, table, bucket, runs, puts, clients,
                   listed, image_files, idx, s3_key, labels, response, error,
                   calls>>

\* lines 123-128: the session, both clients and the table handle
CreateClients ==
    /\ pc = "configured"
    /\ clients' = TRUE
    /\ pc' = "clients"
    /\ UNCHANGED <<environ, fs, clock, table, bucket, runs, puts, aws_region,
                   s3_bucket, dynamodb_table_name, branch_name, timestamp,
                   listed, image_files, idx, s3_key, labels, response, error,
                   stdout, calls>>

\* lines 123-128 when boto3 raises, as botocore does for a region name that
\* is not of the form it accepts
CreateClientsRaises ==
    /\ pc = "configured"
    /\ error' = [type |-> "BotoCoreError", msg |-> <<aws_region>>,
                 at |-> "session"]
    /\ pc' = "raised"
    /\ UNCHANGED <<environ, fs, clock, table, bucket, runs, puts, aws_region,
                   s3_bucket, dynamodb_table_name, branch_name, timestamp,
                   clients, listed, image_files, idx, s3_key, labels,
                   response, stdout, calls>>

\* lines 131-134
ListImages ==
    /\ pc = "clients"
    /\ listed' = TRUE
    /\ LET got == list_image_files(fs)
       IN  IF got.raised
           THEN /\ error' = [type |-> "OSError", msg |-> <<IMAGES_DIR>>,
                             at |-> "list_image_files"]
                /\ pc' = "raised"
                /\ UNCHANGED <<image_files, idx, stdout>>
           ELSE /\ image_files' = got.value
                /\ error' = error
                /\ IF got.value = <<>>
                   THEN /\ stdout' = stdout
                                \o (IF exists(fs) THEN <<>>
                                    ELSE <<[kind |-> "no_folder"]>>)
                                \o <<[kind |-> "no_images"]>>
                        /\ pc' = "finished"
                        /\ idx' = idx
                   ELSE /\ stdout' = stdout
                        /\ pc' = "upload"
                        /\ idx' = 1
    /\ UNCHANGED <<environ, fs, clock, table, bucket, runs, puts, aws_region,
                   s3_bucket, dynamodb_table_name, branch_name, timestamp,
                   clients, s3_key, labels, response, calls>>

\* the exception a failing call of a service raises
ServiceError(op) == [type |-> "ClientError", msg |-> <<op>>, at |-> op]

\* line 160: the failure line of the except clause
FailedLine(path, exc) ==
    [kind |-> "failed", name |-> PathName(path), exc |-> exc]

\* the for statement taking the next file, or ending the loop
NextFile ==
    /\ pc' = IF idx < Len(image_files) THEN "upload" ELSE "finished"
    /\ idx' = idx + 1
    /\ s3_key' = <<>>
    /\ labels' = <<>>

\* "break" in place of "continue"
ContinueBreak ==
    /\ pc' = "finished"
    /\ idx' = idx + 1
    /\ s3_key' = <<>>
    /\ labels' = <<>>
    /\ error' = error

\* a failed detection falling through to the write, with no labels
ContinueFallThrough ==
    /\ IF pc = "detect"
       THEN pc' = "write" /\ idx' = idx /\ s3_key' = s3_key /\ labels' = <<>>
       ELSE NextFile
    /\ error' = error

\* a file whose first call failed tried once more
ContinueRetryOnce ==
    /\ IF Len(SelectSeq(calls', LAMBDA c : c.file = idx)) = 1
       THEN pc' = "upload" /\ idx' = idx /\ s3_key' = <<>> /\ labels' = <<>>
       ELSE NextFile
    /\ error' = error

\* "raise" in place of "continue"
ContinueReraise ==
    /\ pc' = "raised"
    /\ idx' = idx
    /\ s3_key' = s3_key
    /\ labels' = labels
    /\ error' = calls'[Len(calls')].exc

\* lines 159-162: the exception is swallowed and the loop continues
Continue ==
    /\ NextFile
    /\ error' = error

\* line 139, upload_file returning
UploadReturns ==
    /\ pc = "upload"
    /\ LET key == s3_key_of(image_files[idx])
       IN  /\ stdout' = Append(stdout, [kind |-> "uploading", key |-> key])
           /\ calls' = Append(calls, [op |-> "upload_file", file |-> idx,
                                      key |-> key, ok |-> TRUE, at |-> clock])
           /\ bucket' = bucket \cup {key}
           /\ s3_key' = key
    /\ pc' = "detect"
    /\ clock' = clock + 1
    /\ UNCHANGED <<environ, fs, table, runs, puts, aws_region, s3_bucket,
                   dynamodb_table_name, branch_name, timestamp, clients,
                   listed, image_files, idx, labels, response, error>>

\* line 139, upload_file raising: lines 159-162
UploadRaises ==
    /\ pc = "upload"
    /\ LET key == s3_key_of(image_files[idx])
       IN  /\ stdout' = stdout \o
                  <<[kind |-> "uploading", key |-> key],
                    FailedLine(image_files[idx], ServiceError("upload_file"))>>
           /\ calls' = Append(calls, [op |-> "upload_file", file |-> idx,
                                      key |-> key, ok |-> FALSE, at |-> clock,
                                      exc |-> ServiceError("upload_file")])
    /\ Continue
    /\ clock' = clock + 1
    /\ UNCHANGED <<environ, fs, table, bucket, runs, puts, aws_region,
                   s3_bucket, dynamodb_table_name, branch_name, timestamp,
                   clients, listed, image_files, response>>

\* line 142, rekognition answering with resp
DetectReturns ==
    /\ pc = "detect"
    /\ \E resp \in SampleResponses :
        /\ response' = resp
        /\ labels' = detect_labels(resp)
        /\ calls' = Append(calls, [op |-> "detect_labels", file |-> idx,
                                   key |-> s3_key, ok |-> TRUE, at |-> clock,
                                   returned |-> detect_labels(resp)])
    /\ stdout' = Append(stdout, [kind |-> "detecting", key |-> s3_key])
    /\ pc' = "write"
    /\ clock' = clock + 1
    /\ UNCHANGED <<environ, fs, table, bucket, runs, puts, aws_region,
                   s3_bucket, dynamodb_table_name, branch_name, timestamp,
                   clients, listed, image_files, idx, s3_key, error>>

\* line 142, rekognition raising: lines 159-162
DetectRaises ==
    /\ pc = "detect"
    /\ stdout' = stdout \o
           <<[kind |-> "detecting", key |-> s3_key],
             FailedLine(image_files[idx], ServiceError("detect_labels"))>>
    /\ calls' = Append(calls, [op |-> "detect_labels", file |-> idx,
                               key |-> s3_key, ok |-> FALSE, at |-> clock,
                               exc |-> ServiceError("detect_labels")])
    /\ Continue
    /\ clock' = clock + 1
    /\ UNCHANGED <<environ, fs, table, bucket, runs, puts, aws_region,
                   s3_bucket, dynamodb_table_name, branch_name, timestamp,
                   clients, listed, image_files, response>>

\* lines 145-157, put_item returning
WriteReturns ==
    /\ pc = "write"
    /\ LET item == make_item(s3_key, labels, timestamp, branch_name)
       IN  /\ calls' = Append(calls, [op |-> "put_item", file |-> idx,
                                      key |-> item.filename, item |-> item,
                                      ok |-> TRUE, at |-> clock])
           /\ table' = put_item(table, item)
           /\ stdout' = stdout \o
                  <<[kind |-> "writing", key |-> s3_key],
                    [kind |-> "success",
                     summary |-> [filename |-> s3_key, labels |-> labels,
                                  timestamp |-> timestamp,
                                  branch |-> branch_name]]>>
    /\ puts' = puts + 1
    /\ NextFile
    /\ clock' = clock + 1
    /\ UNCHANGED <<environ, fs, bucket, runs, aws_region, s3_bucket,
                   dynamodb_table_name, branch_name, timestamp, clients,
                   listed, image_files, response, error>>

\* line 145, put_item raising: lines 159-162
WriteRaises ==
    /\ pc = "write"
    /\ LET item == make_item(s3_key, labels, timestamp, branch_name)
       IN  /\ calls' = Append(calls, [op |-> "put_item", file |-> idx,
                                      key |-> item.filename, item |-> item,
                                      ok |-> FALSE, at |-> clock,
                                      exc |-> ServiceError("put_item")])
           /\ stdout' = stdout \o
                  <<[kind |-> "writing", key |-> s3_key],
                    FailedLine(image_files[idx], ServiceError("put_item"))>>
    /\ Continue
    /\ clock' = clock + 1
    /\ UNCHANGED <<environ, fs, table, bucket, runs, puts, aws_region,
                   s3_bucket, dynamodb_table_name, branch_name, timestamp,
                   clients, listed, image_files, response>>

\* the job is started again, on the same table and bucket
Rerun ==
    /\ pc \in {"finished", "raised"}
    /\ runs < MaxRuns
    /\ runs' = runs + 1
    /\ environ' \in MainEnvirons
    /\ fs' \in MainDirs
    /\ clock' = clock + 1
    /\ pc' = "start"
    /\ aws_region' = "" /\ s3_bucket' = "" /\ dynamodb_table_name' = ""
    /\ branch_name' = "" /\ timestamp' = isoformat(0)
    /\ clients' = FALSE /\ listed' = FALSE
    /\ image_files' = <<>> /\ idx' = 0
    /\ s3_key' = <<>> /\ labels' = <<>>
    /\ response' = [LabelModelVersion |-> "3.0"]
    /\ error' = NoError /\ stdout' = <<>> /\ calls' = <<>>
    /\ UNCHANGED <<table, bucket, puts>>

MainStep ==
    \/ LoadConfigRaises
    \/ LoadConfig
    \/ CreateClients
    \/ CreateClientsRaises
    \/ ListImages
    \/ UploadReturns
    \/ UploadRaises
    \/ DetectReturns
    \/ DetectRaises
    \/ WriteReturns
    \/ WriteRaises

Next == MainStep \/ Rerun

Spec == Init /\ [][Next]_vars

\* one run of main(), from every environment
RunInit ==
    /\ environ \in Environs
    /\ fs \in MainDirs
    /\ clock = 1
    /\ table = {} /\ bucket = {}
    /\ runs = 1 /\ puts = 0
    /\ pc = "start"
    /\ Fresh

RunSpec == RunInit /\ [][MainStep]_vars

\* main() is ordinary sequential code: a step that can be taken is taken
FairRunSpec == RunSpec /\ WF_vars(MainStep)

-----------------------------------------------------------------------------
(* list_image_files on its own, over every directory of the bounds *)

ListInit ==
    /\ environ \in {e \in MainEnvirons :
                        e.BRANCH_NAME = <<>> /\ e.S3_BUCKET = <<"my-bucket">>}
    /\ fs \in Dirs
    /\ clock = 1
    /\ table = {} /\ bucket = {}
    /\ runs = 1 /\ puts = 0
    /\ pc = "list_call"
    /\ Fresh

ListCall ==
    /\ pc = "list_call"
    /\ image_files' = list_image_files(fs).value
    /\ error' = IF list_image_files(fs).raised
                THEN [type |-> "OSError", msg |-> <<IMAGES_DIR>>,
                      at |-> "list_image_files"]
                ELSE error
    /\ listed' = TRUE
    /\ pc' = "list_return"
    /\ UNCHANGED <<environ, fs, clock, table, bucket, runs, puts, aws_region,
                   s3_bucket, dynamodb_table_name, branch_name, timestamp,
                   clients, idx, s3_key, labels, response, stdout, calls>>

ListSpec == ListInit /\ [][ListCall]_vars

-----------------------------------------------------------------------------
(* detect_labels on its own, over every response of the bounds *)

LabelInit ==
    /\ environ \in {e \in MainEnvirons :
                        e.BRANCH_NAME = <<>> /\ e.S3_BUCKET = <<"my-bucket">>}
    /\ fs \in {d \in MainDirs : d.status = "missing"}
    /\ clock = 1
    /\ table = {} /\ bucket = {}
    /\ runs = 1 /\ puts = 0
    /\ pc = "detect_call"
    /\ aws_region = "" /\ s3_bucket = "" /\ dynamodb_table_name = ""
    /\ branch_name = "" /\ timestamp = isoformat(0)
    /\ clients = FALSE /\ listed = FALSE
    /\ image_files = <<>> /\ idx = 0
    /\ s3_key = <<>> /\ labels = <<>>
    /\ response \in Responses
    /\ error = NoError /\ stdout = <<>> /\ calls = <<>>

DetectCall ==
    /\ pc = "detect_call"
    /\ labels' = detect_labels(response)
    /\ pc' = "detect_return"
    /\ UNCHANGED <<environ, fs, clock, table, bucket, runs, puts, aws_region,
                   s3_bucket, dynamodb_table_name, branch_name, timestamp,
                   clients, listed, image_files, idx, s3_key, response, error,
                   stdout, calls>>

LabelSpec == LabelInit /\ [][DetectCall]_vars

-----------------------------------------------------------------------------
(* Vocabulary of the properties *)

\* positions of the call log that are calls for the i-th file
CallsFor(i) == {p \in DOMAIN calls : calls[p].file = i}

\* the i-th file's call of one service, if it was issued
CallOf(i, op) == {p \in CallsFor(i) : calls[p].op = op}

\* the i-th file went through all three stages without an exception
Clean(i) ==
    /\ \A p \in CallsFor(i) : calls[p].ok
    /\ \A op \in {"upload_file", "detect_labels", "put_item"} :
           CallOf(i, op) # {}

\* the object key the specification gives a path: prefix, "/", base name
KeyOf(path) == <<"rekognition-input", "/">> \o path[Len(path)]

StageRank(op) ==
    CASE op = "upload_file" -> 1 [] op = "detect_labels" -> 2
      [] op = "put_item" -> 3

\* s is a proper prefix of t, or is smaller at the first difference
LexLess(s, t) ==
    \E k \in 1..Len(t) :
        /\ \A i \in 1..(k - 1) : i <= Len(s) /\ s[i] = t[i]
        /\ \/ k = Len(s) + 1
           \/ k <= Len(s) /\ Ord[s[k]] < Ord[t[k]]

EndsWith(name, ext) ==
    /\ Len(name) >= Len(ext)
    /\ SubSeq(name, Len(name) - Len(ext) + 1, Len(name)) = ext

-----------------------------------------------------------------------------
(* C1 *)

\* C1: when a call made for a file raises, no further call is made for that
\* file, a failure line naming the file is printed, main() does not end with
\* an exception, and every later file is attempted from its upload; a later
\* file that meets no error is uploaded, labelled and recorded.
C1_FailureIsolation ==
    \A p \in DOMAIN calls :
        ~calls[p].ok =>
            LET f == calls[p].file
            IN  /\ \A q \in DOMAIN calls : q > p => calls[q].file > f
                /\ \E l \in DOMAIN stdout :
                       /\ stdout[l].kind = "failed"
                       /\ stdout[l].name = image_files[f][Len(image_files[f])]
                /\ pc \in {"upload", "detect", "write", "finished"}
                /\ idx > f
                /\ \A j \in (f + 1)..Len(image_files) :
                       (j < idx \/ pc = "finished") =>
                           /\ CallsFor(j) # {}
                           /\ \A q \in CallsFor(j) :
                                  (\A r \in CallsFor(j) : q <= r)
                                      => calls[q].op = "upload_file"
                           /\ (\A q \in CallsFor(j) : calls[q].ok) =>
                                  /\ Clean(j)
                                  /\ \E q \in CallOf(j, "put_item") :
                                         calls[q].item \in table

\* the first of two files failed at upload and the second was recorded
C1_Witness ==
    /\ pc = "finished"
    /\ Len(image_files) = 2
    /\ Len(calls) = 4
    /\ calls[1].op = "upload_file" /\ ~calls[1].ok
    /\ calls[4].op = "put_item" /\ calls[4].ok /\ calls[4].file = 2

-----------------------------------------------------------------------------
(* C2 *)

\* every put_item of the run follows a returned upload and a returned
\* detection of the same file
PutOnlyAfterBoth ==
    \A q \in DOMAIN calls :
        calls[q].op = "put_item" =>
            /\ \E p \in CallOf(calls[q].file, "upload_file") :
                   p < q /\ calls[p].ok
            /\ \E p \in CallOf(calls[q].file, "detect_labels") :
                   p < q /\ calls[p].ok
            /\ calls[q].key = KeyOf(image_files[calls[q].file])

\* the table changes only in a step that writes the record of the current
\* file, whose upload and detection both returned
TableChangesOnlyByWrite ==
    table' # table =>
        /\ pc = "write"
        /\ \E p \in CallOf(idx, "upload_file") : calls[p].ok
        /\ \E p \in CallOf(idx, "detect_labels") : calls[p].ok
        /\ \A it \in (table' \ table) \cup (table \ table') :
               it.filename = KeyOf(image_files[idx])

\* C2: put_item is called for a file's key only if that file's upload and
\* detection both returned in the same run, and a file whose upload or
\* detection raised leaves the table as it was.
C2_NoPartialRecord == [](PutOnlyAfterBoth) /\ [][TableChangesOnlyByWrite]_vars

\* a file whose detection raised is done and the table has nothing under
\* its key
C2_Witness ==
    /\ pc = "finished"
    /\ \E p \in DOMAIN calls :
           /\ calls[p].op = "detect_labels" /\ ~calls[p].ok
           /\ \A it \in table : it.filename # calls[p].key
    /\ table # {}

-----------------------------------------------------------------------------
(* C3 *)

\* C3: no item passed to put_item holds a float: every Confidence of its
\* labels has been converted to the table's exact numeric type.
C3_NoFloatInItem ==
    \A q \in DOMAIN calls :
        calls[q].op = "put_item" =>
            \A i \in DOMAIN calls[q].item.labels :
                calls[q].item.labels[i].Confidence.kind # "float"

-----------------------------------------------------------------------------
(* C4 *)

\* the required variables that are unset or empty, by position in the
\* order AWS_REGION, S3_BUCKET, DYNAMODB_TABLE
MissingRequired ==
    {k \in 1..3 :
        LET n == <<"AWS_REGION", "S3_BUCKET", "DYNAMODB_TABLE">>[k]
        IN  environ[n] = <<>> \/ environ[n] = <<"">>}

\* C4: with a required variable unset or empty, main() ends with an error
\* naming the first such variable before any client exists, before the
\* directory is listed and before any service is called; with all three set
\* and non-empty the configuration raises nothing.
C4_ConfigFailFast ==
    /\ (MissingRequired # {} /\ pc # "start") =>
           LET first == CHOOSE k \in MissingRequired :
                            \A m \in MissingRequired : k <= m
           IN  /\ pc = "raised"
               /\ error.type = "ValueError"
               /\ error.msg = <<"Missing required environment variable: ",
                                <<"AWS_REGION", "S3_BUCKET",
                                  "DYNAMODB_TABLE">>[first]>>
               /\ ~clients /\ ~listed
               /\ calls = <<>> /\ table = {} /\ bucket = {}
    /\ MissingRequired = {} => error.at # "get_env_var"
    /\ (MissingRequired = {} /\ pc # "start") =>
           /\ aws_region = environ.AWS_REGION[1]
           /\ s3_bucket = environ.S3_BUCKET[1]
           /\ dynamodb_table_name = environ.DYNAMODB_TABLE[1]

\* the region is set, the bucket is empty and the table is unset: the error
\* names the bucket
C4_Witness ==
    /\ pc = "raised"
    /\ environ.AWS_REGION = <<"us-east-1">>
    /\ environ.S3_BUCKET = <<"">>
    /\ environ.DYNAMODB_TABLE = <<>>
    /\ error.msg = <<"Missing required environment variable: ", "S3_BUCKET">>

-----------------------------------------------------------------------------
(* C5 *)

\* the base names of the image files of the directories main() is run on
ImageNames ==
    {n \in UNION {{d.listing[i][1] : i \in DOMAIN d.listing} : d \in MainDirs} :
        \E ext \in {<<".", "j", "p", "g">>, <<".", "j", "p", "e", "g">>,
                     <<".", "p", "n", "g">>} : EndsWith(n, ext)}

\* C5: across runs the table holds at most one record per object key; the
\* key of a file is "rekognition-input/" and its base name; a record
\* written in this run is the one the table holds under its key; and the
\* table never holds more records than there are file names.
C5_UpsertPerKey ==
    /\ \A a, b \in table : a.filename = b.filename => a = b
    /\ \A p \in DOMAIN calls : calls[p].key = KeyOf(image_files[calls[p].file])
    /\ \A it \in table : \E n \in ImageNames :
           it.filename = <<"rekognition-input", "/">> \o n
    /\ \A p \in DOMAIN calls :
           (calls[p].op = "put_item" /\ calls[p].ok) => calls[p].item \in table
    /\ Cardinality(table) <= puts
    /\ Cardinality(table) <= Cardinality(ImageNames)

\* the second run has written a file again: two writes, one record, and the
\* record is the second run's
C5_Witness ==
    /\ runs = 2
    /\ puts = 2
    /\ Cardinality(table) = 1
    /\ \E p \in DOMAIN calls :
           /\ calls[p].op = "put_item" /\ calls[p].ok
           /\ table = {calls[p].item}

-----------------------------------------------------------------------------
(* C6 *)

\* C6, in the specification's words: the only failing exits of main() are a
\* missing required variable and a failing directory listing.
C6_OnlyConfigOrListingFails ==
    pc = "raised" => error.at \in {"get_env_var", "list_image_files"}

\* main() ends with an exception only before the loop over the files
FailsOnlyBeforeTheLoop ==
    pc = "raised" =>
        /\ error.at \in {"get_env_var", "session", "list_image_files"}
        /\ calls = <<>>

\* C6, as the code has it: once the configuration is loaded, the clients
\* are built and the directory is listed, main() reaches its end and returns
\* normally whatever the outcome of each file; it ends with an exception
\* only for a missing required variable, a failure building the clients, or
\* a failing directory listing.
C6_ExitIgnoresFileFailures ==
    /\ [](FailsOnlyBeforeTheLoop)
    /\ (pc \in {"upload", "detect", "write"}) ~> (pc = "finished")

\* every file of the run failed and main() returned normally
C6_Witness ==
    /\ pc = "finished"
    /\ Len(image_files) = 2
    /\ Len(calls) >= 2
    /\ \A p \in DOMAIN calls : ~calls[p].ok
    /\ error = NoError

-----------------------------------------------------------------------------
(* C7 *)

-----------------------------------------------------------------------------
(* C8 *)

\* the entries list_image_files is to return: directly in the directory,
\* with a name ending in .jpg, .jpeg or .png in lower case
ExpectedImages ==
    {<<IMAGES_DIR>> \o fs.listing[i] : i \in
        {k \in DOMAIN fs.listing :
            /\ Len(fs.listing[k]) = 1
            /\ \E ext \in {<<".", "j", "p", "g">>, <<".", "j", "p", "e", "g">>,
                           <<".", "p", "n", "g">>} :
                   EndsWith(fs.listing[k][1], ext)}}

\* C8: list_image_files returns exactly the entries directly in the
\* directory whose name ends in .jpg, .jpeg or .png, each once, in ascending
\* order of path; for a directory that does not exist it returns the empty
\* list and raises nothing.
C8_Enumeration ==
    pc = "list_return" =>
        /\ {image_files[i] : i \in DOMAIN image_files} = ExpectedImages
        /\ Len(image_files) = Cardinality(ExpectedImages)
        /\ \A i, j \in DOMAIN image_files :
               i < j => /\ image_files[i][1] = image_files[j][1]
                        /\ Len(image_files[i]) = 2 /\ Len(image_files[j]) = 2
                        /\ LexLess(image_files[i][2], image_files[j][2])
        /\ fs.status = "missing" => image_files = <<>>
        /\ error = NoError

\* a listing in another order than the result, with an upper-case extension
\* left out
C8_Witness ==
    /\ pc = "list_return"
    /\ fs.listing = <<a_jpg, c_JPG, B_png>>
    /\ image_files = <<<<IMAGES_DIR>> \o B_png, <<IMAGES_DIR>> \o a_jpg>>

-----------------------------------------------------------------------------
(* C9 *)

\* C9: detect_labels returns one record per entry of Labels, in the order
\* of the response, none when Labels is missing; each carries the entry's
\* Name and Confidence, "Unknown" and 0 standing in for a missing one.
C9_Normalization ==
    pc = "detect_return" =>
        LET n == IF "Labels" \in DOMAIN response
                 THEN Len(response.Labels) ELSE 0
        IN  /\ Len(labels) = n
            /\ \A i \in 1..n :
                   LET e == response.Labels[i]
                   IN  /\ DOMAIN labels[i] = {"Name", "Confidence"}
                       /\ labels[i].Name =
                              IF "Name" \in DOMAIN e THEN e.Name ELSE "Unknown"
                       /\ labels[i].Confidence.num =
                              IF "Confidence" \in DOMAIN e
                              THEN e.Confidence.num ELSE 0

\* two entries, the first without a Name, the second without a Confidence
C9_Witness ==
    /\ pc = "detect_return"
    /\ Len(labels) = 2
    /\ "Name" \notin DOMAIN response.Labels[1]
    /\ labels[1].Name = "Unknown"
    /\ "Confidence" \notin DOMAIN response.Labels[2]
    /\ labels[2] = [Name |-> "Cat", Confidence |-> PyFloat(0)]

-----------------------------------------------------------------------------
(* C10 *)

\* C10: the calls of a run follow the sorted file list; each file has at
\* most one upload, one detection and one write, in that order, each issued
\* only after the one before it returned; a file's first call comes only
\* after the file before it was written or failed; with no file, no call.
C10_StrictSequence ==
    /\ listed /\ pc # "raised" => image_files = list_image_files(fs).value
    /\ \A i, j \in DOMAIN image_files :
           i < j => LexLess(image_files[i][2], image_files[j][2])
    /\ image_files = <<>> => calls = <<>>
    /\ \A p, q \in DOMAIN calls :
           p < q =>
               /\ calls[p].file <= calls[q].file
               /\ calls[p].file = calls[q].file =>
                      StageRank(calls[p].op) < StageRank(calls[q].op)
    /\ \A q \in DOMAIN calls :
           /\ calls[q].file \in DOMAIN image_files
           /\ calls[q].key = KeyOf(image_files[calls[q].file])
           /\ calls[q].op = "upload_file" =>
                  \/ q = 1 /\ calls[q].file = 1
                  \/ /\ q > 1
                     /\ calls[q].file = calls[q - 1].file + 1
                     /\ ~calls[q - 1].ok \/ calls[q - 1].op = "put_item"
           /\ calls[q].op = "detect_labels" =>
                  /\ q > 1
                  /\ calls[q - 1].op = "upload_file"
                  /\ calls[q - 1].file = calls[q].file
                  /\ calls[q - 1].ok
           /\ calls[q].op = "put_item" =>
                  /\ q > 1
                  /\ calls[q - 1].op = "detect_labels"
                  /\ calls[q - 1].file = calls[q].file
                  /\ calls[q - 1].ok

\* two files: the first failed at detection, the second went through
C10_Witness ==
    /\ pc = "finished"
    /\ Len(calls) = 5
    /\ calls[2].op = "detect_labels" /\ ~calls[2].ok
    /\ calls[3].op = "upload_file" /\ calls[3].file = 2
    /\ calls[5].op = "put_item" /\ calls[5].ok

====
